---- MODULE Spec2Model ----
(***************************************************************************)
(* bevy_lint: the configuration overlay (config/mod.rs), the manifest      *)
(* locator (utils/cargo.rs) and the rustc callback that installs the       *)
(* lint-registration and query hooks (callback.rs).                        *)
(*                                                                         *)
(* One driver thread runs compilation sessions one after another; each     *)
(* session runs BevyLintCallback::config (load_config, then the hook       *)
(* installation), after which the compiler calls the installed hooks.  A   *)
(* lint thread calls with_config at arbitrary moments.                     *)
(***************************************************************************)
EXTENDS FiniteSets, Integers, Sequences, TLC

(***************************************************************************)
(* TOML values.  A table is a set of <<key, value>> pairs with distinct    *)
(* keys; a value is a record of its type and its text.                     *)
(***************************************************************************)
None == "None"
NoValue == [ty |-> None, s |-> ""]

StringValue(s) == [ty |-> "String", s |-> s]
IntegerValue(s) == [ty |-> "Integer", s |-> s]

\* InlineTable::new()
InlineTable_new == {}

\* InlineTable::get / Table::get
table_get(tbl, key) ==
    IF \E p \in tbl : p[1] = key
    THEN (CHOOSE p \in tbl : p[1] = key)[2]
    ELSE NoValue

\* InlineTable::remove
table_remove(tbl, key) == {p \in tbl : p[1] # key}

\* Value::as_str
as_str(value) == IF value.ty = "String" THEN value.s ELSE None

\* toml_edit::Item, restricted to the shapes a section entry can have.
ItemString(s) == [kind |-> "String", s |-> s, tbl |-> {}]
ItemInteger(s) == [kind |-> "Integer", s |-> s, tbl |-> {}]
ItemInlineTable(tbl) == [kind |-> "InlineTable", s |-> "", tbl |-> tbl]
ItemTable(tbl) == [kind |-> "Table", s |-> "", tbl |-> tbl]

\* Item::as_value: Some for Item::Value(..), None for Item::Table and the rest.
NoItem == [kind |-> None, s |-> "", tbl |-> {}]
as_value(item) == IF item.kind = "Table" THEN NoItem ELSE item

\* rustc_lint::Level::from_str
Level_from_str(s) ==
    CASE s = "allow" -> "Allow"
      [] s = "warn" -> "Warn"
      [] s = "deny" -> "Deny"
      [] s = "forbid" -> "Forbid"
      [] OTHER -> None

Entry(name, item) == [name |-> name, item |-> item]

(***************************************************************************)
(* The manifests the sessions are run against.                             *)
(***************************************************************************)
LevelDeny == <<"level", StringValue("deny")>>
LevelForbid == <<"level", StringValue("forbid")>>
LevelBogus == <<"level", StringValue("bogus")>>
LevelInt == <<"level", IntegerValue("1")>>
MaxParam == <<"max", IntegerValue("3")>>
NamesParam == <<"names", StringValue("x")>>

SectionPlain ==
    << Entry("zst_query", ItemString("warn")),
       Entry("panicking_methods", ItemInlineTable({LevelDeny, MaxParam})) >>

SectionMalformed ==
    << Entry("zst_query", ItemString("bogus")),
       Entry("panicking_methods", ItemInlineTable({LevelInt})),
       Entry("insert_event_resource", ItemInlineTable({LevelBogus, NamesParam})),
       Entry("main_return_without_appexit", ItemInteger("2")) >>

SectionParams ==
    << Entry("panicking_methods", ItemInlineTable({MaxParam, NamesParam})),
       Entry("zst_query", ItemInlineTable({LevelForbid})),
       Entry("insert_event_resource", ItemString("allow")) >>

SectionSubTable ==
    << Entry("zst_query", ItemString("deny")),
       Entry("panicking_methods", ItemTable({LevelDeny, MaxParam})),
       Entry("insert_event_resource", ItemInlineTable({MaxParam})) >>

Sections == {SectionPlain, SectionMalformed, SectionParams, SectionSubTable, <<>>}

LintNames ==
    {"zst_query", "panicking_methods", "insert_event_resource",
     "main_return_without_appexit"}

\* A file: absent, or text that parses or not as a TOML document whose
\* package.metadata.bevy_lint item is absent, a plain value, or a table.
NoFile == [exists |-> FALSE, parses |-> FALSE, bevy_lint |-> "absent", entries |-> <<>>]
Garbage == [exists |-> TRUE, parses |-> FALSE, bevy_lint |-> "absent", entries |-> <<>>]
NoSection == [exists |-> TRUE, parses |-> TRUE, bevy_lint |-> "absent", entries |-> <<>>]
InlineSection == [exists |-> TRUE, parses |-> TRUE, bevy_lint |-> "value", entries |-> SectionPlain]
WithSection(s) == [exists |-> TRUE, parses |-> TRUE, bevy_lint |-> "table", entries |-> s]

Documents == {Garbage, NoSection, InlineSection} \cup {WithSection(s) : s \in Sections}

(***************************************************************************)
(* Paths are sequences of text pieces; the file system has the package     *)
(* directory /p (with /p/src) and a directory /q outside every package.    *)
(***************************************************************************)
ManifestPath == <<"/p", "/Cargo.toml">>
Newline == <<"\n">>
SrcFile == <<"/p", "/src", "/main.rs">>
OutsideFile == <<"/q", "/main.rs">>
Dirs == {<<"/p">>, <<"/p", "/src">>, <<"/q">>}

\* Path::parent
parent(path) == SubSeq(path, 1, Len(path) - 1)

\* Path::is_dir
is_dir(path) == path \in Dirs

\* std::fs::read_to_string: the file's text, or Err (NoFile).  fs.manifest
\* is /p/Cargo.toml; fs.shadow is a file of /p named "Cargo.toml\n".
read_to_string(fs, path) ==
    IF path = ManifestPath THEN fs.manifest
    ELSE IF path = ManifestPath \o Newline THEN fs.shadow
    ELSE NoFile

\* `cargo locate-project --message-format=plain [--workspace]` run in dir:
\* prints the nearest enclosing Cargo.toml followed by a newline, or nothing
\* on failure.  The package /p is its own workspace root.
cargo_locate_project(fs, dir, workspace) ==
    IF fs.manifest.exists /\ Len(dir) >= 1 /\ SubSeq(dir, 1, 1) = <<"/p">>
    THEN ManifestPath \o Newline
    ELSE <<>>

\* utils::cargo::locate_project: Ok(path) or Err.
locate_project(fs, relative_to, workspace) ==
    LET dir == IF is_dir(relative_to) THEN relative_to ELSE parent(relative_to)
        stdout == cargo_locate_project(fs, dir, workspace)
    IN  IF dir \notin Dirs
        THEN [ok |-> FALSE, path |-> <<>>]
        ELSE [ok |-> TRUE, path |-> stdout]

\* config::load_cargo_manifest: the parsed document, or None (NoFile).
load_cargo_manifest(fs, input) ==
    IF ~input.file THEN NoFile
    ELSE LET located == locate_project(fs, input.path, FALSE)
             manifest == read_to_string(fs, located.path)
         IN  IF ~located.ok THEN NoFile
             ELSE IF ~manifest.exists THEN NoFile
             ELSE IF ~manifest.parses THEN NoFile
             ELSE manifest

\* The option named without the tool's namespace.
lint_option_bare_name(lint_name) == lint_name

\* format!("bevy::{lint_name}")
lint_option_name(lint_name) == "bevy::" \o lint_name

\* The level one entry of the section asks for (callers have checked as_value).
entry_level(value) ==
    CASE value.kind = "String" -> Level_from_str(value.s)
      [] value.kind = "InlineTable" ->
            LET level == as_str(table_get(value.tbl, "level"))
            IN  IF level = None THEN None ELSE Level_from_str(level)
      [] OTHER -> None

\* config::append_lint_levels_to_options from entry i on: the options
\* pushed so far and whether as_value().unwrap() panicked.
RECURSIVE append_lint_levels_from(_, _, _)
append_lint_levels_from(lint_opts, linter_config, i) ==
    IF i > Len(linter_config)
    THEN [lint_opts |-> lint_opts, panicked |-> FALSE]
    ELSE LET lint_name == linter_config[i].name
             lint_config == as_value(linter_config[i].item)
         IN  IF lint_config = NoItem
             THEN [lint_opts |-> lint_opts, panicked |-> TRUE]
             ELSE LET level == entry_level(lint_config)
                  IN  append_lint_levels_from(
                          IF level # None
                          THEN Append(lint_opts, <<lint_option_name(lint_name), level>>)
                          ELSE lint_opts,
                          linter_config, i + 1)

append_lint_levels_to_options(lint_opts, linter_config) ==
    append_lint_levels_from(lint_opts, linter_config, 1)

\* BTreeMap::get / BTreeMap::insert on a set of <<name, table>> pairs.
map_get(map, name) == (CHOOSE p \in map : p[1] = name)[2]
map_contains(map, name) == \E p \in map : p[1] = name
map_insert(map, name, tbl) == {p \in map : p[1] # name} \cup {<<name, tbl>>}

(***************************************************************************)
(* What a session is run against: whether cargo invoked the process, the   *)
(* compiler's input, and the files of /p.                                  *)
(***************************************************************************)
InputStr == [file |-> FALSE, path |-> <<>>]
InputFile(path) == [file |-> TRUE, path |-> path]

FileSystem(manifest, shadow) == [manifest |-> manifest, shadow |-> shadow]
World(cargo, input, fs) == [cargo |-> cargo, input |-> input, fs |-> fs]

Worlds ==
    { World(FALSE, InputFile(SrcFile),
            FileSystem(WithSection(SectionPlain), WithSection(SectionPlain))),
      World(TRUE, InputStr,
            FileSystem(WithSection(SectionPlain), WithSection(SectionPlain))),
      World(TRUE, InputFile(OutsideFile),
            FileSystem(WithSection(SectionPlain), WithSection(SectionPlain))),
      World(TRUE, InputFile(SrcFile), FileSystem(NoFile, NoFile)),
      World(TRUE, InputFile(SrcFile), FileSystem(NoFile, WithSection(SectionPlain))),
      World(TRUE, InputFile(SrcFile), FileSystem(WithSection(SectionPlain), NoFile)),
      World(TRUE, InputFile(SrcFile),
            FileSystem(WithSection(SectionPlain), WithSection(SectionParams))) }
    \cup
    { World(TRUE, InputFile(SrcFile), FileSystem(d, d)) : d \in Documents }

\* The Config the driver hands to BevyLintCallback::config.
PriorOption == <<"unused_variables", "Deny">>
NewConfig(input, lint_opts, register_lints, override_queries) ==
    [input |-> input, lint_opts |-> lint_opts,
     register_lints |-> register_lints, override_queries |-> override_queries]
NoConfig == NewConfig(InputStr, <<>>, <<>>, None)

\* The closures the lints pass to with_config.
Closures == {"keys", "values"}
call(func, tbl) ==
    IF func = "keys" THEN {p[1] : p \in tbl} ELSE {p[2].s : p \in tbl}

\* No session has run yet.
NoWorld == World(FALSE, InputStr, FileSystem(NoFile, NoFile))

(***************************************************************************)
(* callback.rs.  A register_lints hook is the chain of closures it is made *)
(* of, outermost first: <<>> is None, "other" a hook of another tool, and  *)
(* "bevy" the closure of BevyLintCallback::config owning the rest.         *)
(***************************************************************************)
\* The closure that forgets the hook it replaces.
bevy_register_lints_replacing(previous) == <<"bevy">>

bevy_register_lints(previous) == <<"bevy">> \o previous

\* Calling a register_lints hook: the registrations it makes, in order.
RECURSIVE run_register_lints(_)
run_register_lints(hook) ==
    IF hook = <<>> THEN <<>>
    ELSE IF Head(hook) = "bevy"
    THEN run_register_lints(Tail(hook))
         \o <<"lints::register_lints", "lints::register_passes",
              "groups::register_groups">>
    ELSE <<Head(hook)>>

\* The functions a registered_tools slot can hold.
Placeholder == "unreachable"
Replacement == "registered_tools"
RustcQueries == {"rustc", "backend"}
NoProviders == [original |-> None, registered_tools |-> None]

\* What the compiler's own registered_tools queries return.
rustc_registered_tools(query) ==
    IF query = "rustc" THEN {"clippy", "rustfmt"} ELSE {"clippy", "rustfmt", "miri"}

\* callback::registered_tools with `saved` in REGISTERED_TOOLS: the tools it
\* returns, or how it fails to return.
registered_tools(saved) ==
    IF saved = Placeholder
    THEN [returns |-> FALSE, fate |-> "panicked", tools |-> {}]
    ELSE IF saved = Replacement
    THEN [returns |-> FALSE, fate |-> "diverged", tools |-> {}]
    ELSE [returns |-> TRUE, fate |-> "",
          tools |-> rustc_registered_tools(saved) \cup {"bevy"}]

IdleReader == [pc |-> "idle", name |-> "", func |-> "", calls |-> 0,
               arg |-> {}, ret |-> {}]
NoLocals == [linter_config |-> <<>>, i |-> 0, exit |-> ""]

\* The ways load_config returns: its three early returns and its end.
Returns == {"not_cargo", "no_manifest", "no_section", "loaded"}

\* ---------------------------------------------------------------------
\* The typed program the lints are run on.  Source text is a sequence of
\* tokens; a Span is the tokens lo .. hi-1 of the file the node is in.
\* ---------------------------------------------------------------------

MaxRefs == 2

\* rustc_middle::ty::Ty
Adt(path, args) == [kind |-> "Adt", path |-> path, mutbl |-> "", args |-> args]
Ref(mutbl, ty) == [kind |-> "Ref", path |-> <<>>, mutbl |-> mutbl, args |-> <<ty>>]
Param(name) == [kind |-> "Param", path |-> <<name>>, mutbl |-> "", args |-> <<>>]
Tuple(elems) == [kind |-> "Tuple", path |-> <<>>, mutbl |-> "", args |-> elems]

\* Ty::peel_refs
RECURSIVE peel_refs(_)
peel_refs(ty) == IF ty.kind = "Ref" THEN peel_refs(ty.args[1]) ELSE ty

\* clippy_utils::ty::match_type: only an Adt has a definition path.
match_type(ty, path) == ty.kind = "Adt" /\ ty.path = path

\* The Debug form of a type, which is what {:?} prints: the definition path
\* of an Adt, name/#index of a type parameter.
RECURSIVE debug_fmt(_)
debug_fmt(ty) ==
    CASE ty.kind = "Adt" -> ty.path
      [] ty.kind = "Param" -> <<ty.path[1] \o "/#0">>
      [] ty.kind = "Ref" -> <<"&" \o ty.mutbl>> \o debug_fmt(ty.args[1])
      [] OTHER -> <<"(", ")">>

APP == <<"bevy_app", "app", "App">>
EVENTS == <<"bevy_ecs", "event", "Events">>
QUERY == <<"bevy_ecs", "system", "Query">>

App == Adt(APP, <<>>)

\* The types that are T behind at most k references.
RECURSIVE Referenced(_, _)
Referenced(ty, k) ==
    IF k = 0 THEN {ty}
    ELSE {ty} \cup {Ref(m, t) : m \in {"", "mut "}, t \in Referenced(ty, k - 1)}

Span(lo, hi) == [lo |-> lo, hi |-> hi]
NoSpan == Span(0, 0)

Applicabilities ==
    {"MachineApplicable", "MaybeIncorrect", "HasPlaceholders", "Unspecified"}

\* A diagnostic with the suggestions and the help attached to it.
Suggestion(span, text, applicability) ==
    [span |-> span, text |-> text, applicability |-> applicability]
Diagnostic(lint, span, suggestions, help) ==
    [lint |-> lint, span |-> span, suggestions |-> suggestions, help |-> help]

\* rustc_hir::Ty.  args are the generic arguments of the last segment of a
\* path, elems the elements of a tuple, lowered what lower_ty gives.
HirTy(kind, span, args, elems, lowered) ==
    [kind |-> kind, span |-> span, args |-> args, elems |-> elems,
     lowered |-> lowered]
NoHirTy == HirTy("", NoSpan, <<>>, <<>>, Tuple(<<>>))
GenericArg(kind, ty) == [kind |-> kind, ty |-> ty]

\* ExprKind::MethodCall(path, src, args, fn_span), and the other expressions.
\* fn_span is the method name with its generic arguments and its argument
\* list; span the whole expression; semi the `;` after it, if any.
\* within says whether the expression is in the function's own body, in a
\* closure in it or in an item nested in it.
Expr(kind, method, receiver, generics, args, within, span, fn_span, semi) ==
    [kind |-> kind, method |-> method, receiver |-> receiver,
     generics |-> generics, args |-> args, within |-> within,
     span |-> span, ident_span |-> Span(fn_span.lo, fn_span.lo + 1),
     fn_span |-> fn_span, semi |-> semi]

\* FnRetTy and the function a check_fn call is given.
DefaultReturn(span) == [kind |-> "DefaultReturn", span |-> span, ty |-> NoHirTy]
Return(ty) == [kind |-> "Return", span |-> ty.span, ty |-> ty]
Fn(is_entrypoint, output, body, source) ==
    [is_entrypoint |-> is_entrypoint, output |-> output, body |-> body,
     source |-> source]

\* The statements  <receiver>.<method>();  written one after the other from
\* token `at` on: their tokens and their expressions.
Receivers ==
    Referenced(App, MaxRefs) \cup {Adt(<<"bevy_ecs", "world", "World">>, <<>>)}
Calls ==
    [receiver : Receivers, method : {"run", "update"},
     within : {"body", "closure", "item"}, semi : BOOLEAN]
CallTokens(c) ==
    <<"app", ".", c.method, "(", ")">> \o (IF c.semi THEN <<";">> ELSE <<>>)
CallExpr(c, at) ==
    Expr("MethodCall", c.method, c.receiver, <<>>, <<>>, c.within,
         Span(at, at + 5), Span(at + 2, at + 5),
         IF c.semi THEN Span(at + 5, at + 6) ELSE NoSpan)
RECURSIVE BodyTokens(_)
BodyTokens(calls) ==
    IF calls = <<>> THEN <<>>
    ELSE CallTokens(Head(calls)) \o BodyTokens(Tail(calls))
RECURSIVE BodyExprs(_, _)
BodyExprs(calls, at) ==
    IF calls = <<>> THEN <<>>
    ELSE <<CallExpr(Head(calls), at)>>
            \o BodyExprs(Tail(calls), at + Len(CallTokens(Head(calls))))

\* fn main() {..}, fn main() -> () {..} and fn main() -> ExitCode {..}
Signature(out) ==
    <<"fn", "main", "(", ")">>
       \o (CASE out = "none" -> <<>>
             [] out = "unit" -> <<"->", "()">>
             [] OTHER -> <<"->", "ExitCode">>)
       \o <<"{">>
FnRetTy(out) ==
    CASE out = "none" -> DefaultReturn(Span(5, 5))
      [] out = "unit" ->
            Return(HirTy("Tup", Span(6, 7), <<>>, <<>>, Tuple(<<>>)))
      [] OTHER ->
            Return(HirTy("Path", Span(6, 7), <<>>, <<>>,
                         Adt(<<"std", "process", "ExitCode">>, <<>>)))
Bodies ==
    {<<>>} \cup {<<c>> : c \in Calls} \cup {<<c, d>> : c \in Calls, d \in Calls}
Function(is_entrypoint, out, calls) ==
    Fn(is_entrypoint, FnRetTy(out),
       BodyExprs(calls, Len(Signature(out)) + 1),
       Signature(out) \o BodyTokens(calls) \o <<"}">>)
Functions ==
    {Function(e, out, calls) :
        e \in BOOLEAN, out \in {"none", "unit", "other"}, calls \in Bodies}

\* ---------------------------------------------------------------------
\* lints/main_return_without_appexit.rs
\* ---------------------------------------------------------------------

MAIN_RETURN_WITHOUT_APPEXIT == "bevy::main_return_without_appexit"

\* find_app_run_call that takes any method of App for run.
find_app_method_call(expr, fn_return_span) ==
    IF expr.kind = "MethodCall" /\ match_type(expr.receiver, APP)
    THEN <<Diagnostic(MAIN_RETURN_WITHOUT_APPEXIT, expr.fn_span,
                      <<Suggestion(fn_return_span, <<"->", "AppExit">>,
                                   "MaybeIncorrect")>>, <<>>)>>
    ELSE <<>>

\* find_app_run_call: the diagnostics it emits for one expression.
find_app_run_call(expr, fn_return_span) ==
    IF expr.kind = "MethodCall" /\ expr.method = "run"
       /\ match_type(expr.receiver, APP)
    THEN <<Diagnostic(MAIN_RETURN_WITHOUT_APPEXIT, expr.fn_span,
                      <<Suggestion(fn_return_span, <<"->", "AppExit">>,
                                   "MaybeIncorrect")>>, <<>>)>>
    ELSE <<>>

\* for_each_expr with find_app_run_call: every expression of the body, those
\* in closures too, those in nested items not; it never breaks off.
RECURSIVE for_each_expr(_, _)
for_each_expr(body, fn_return_span) ==
    IF body = <<>> THEN <<>>
    ELSE (IF Head(body).within = "item" THEN <<>>
          ELSE find_app_run_call(Head(body), fn_return_span))
            \o for_each_expr(Tail(body), fn_return_span)

\* MainReturnWithoutAppExit::check_fn
MainReturnWithoutAppExit_check_fn(f) ==
    IF ~f.is_entrypoint THEN <<>>
    ELSE IF f.output.kind = "DefaultReturn"
    THEN for_each_expr(f.body, f.output.span)
    ELSE IF f.output.ty.kind = "Tup" /\ f.output.ty.elems = <<>>
    THEN for_each_expr(f.body, f.output.ty.span)
    ELSE <<>>

\* ---------------------------------------------------------------------
\* lints/insert_event_resource.rs
\* ---------------------------------------------------------------------

INSERT_EVENT_RESOURCE == "bevy::insert_event_resource"
DEFAULT == <<"T">>

\* What a snippet helper gives back: the text, and the applicability it was
\* handed (from) and leaves behind (to).
Snippet(text, from, to) == [text |-> text, from |-> from, to |-> to]

\* `if let Applicability::MachineApplicable = applicability { .. }`
downgrade(applicability) ==
    IF applicability = "MachineApplicable" THEN "HasPlaceholders"
    ELSE applicability

\* The late context: the source of the file, whether the source map can
\* give its text, and whether the spans looked at come from a macro
\* expansion.
Context(source, has_source, from_expansion) ==
    [source |-> source, has_source |-> has_source,
     from_expansion |-> from_expansion]

\* clippy_utils::source::snippet_with_applicability
snippet_with_applicability(cx, span, default, applicability) ==
    LET expanded == IF applicability # "Unspecified" /\ cx.from_expansion
                    THEN "MaybeIncorrect"
                    ELSE applicability
    IN  IF cx.has_source
        THEN Snippet(SubSeq(cx.source, span.lo, span.hi - 1), applicability,
                     expanded)
        ELSE Snippet(default, applicability, downgrade(expanded))

\* extract_ty_event_snippet
extract_ty_event_snippet(events_ty, applicability) ==
    IF events_ty.kind # "Adt"
    THEN Snippet(DEFAULT, applicability, downgrade(applicability))
    ELSE IF events_ty.args = <<>>
    THEN Snippet(DEFAULT, applicability, downgrade(applicability))
    ELSE Snippet(debug_fmt(events_ty.args[1]), applicability, applicability)

\* extract_hir_event_snippet
extract_hir_event_snippet(cx, events_hir_ty, applicability) ==
    IF /\ events_hir_ty.kind = "Path"
       /\ Len(events_hir_ty.args) = 1
       /\ events_hir_ty.args[1].kind = "Type"
    THEN snippet_with_applicability(cx, events_hir_ty.args[1].ty.span, DEFAULT,
                                    applicability)
    ELSE Snippet(DEFAULT, applicability, downgrade(applicability))

\* format!("add_event::<{event_ty_snippet}>()")
add_event(event_ty_snippet) ==
    <<"add_event", "::<">> \o event_ty_snippet \o <<">", "(", ")">>

\* span_lint_and_sugg: the suggestion is for the span of the diagnostic.
span_lint_and_sugg(lint, span, sugg, applicability) ==
    <<Diagnostic(lint, span, <<Suggestion(span, sugg, applicability)>>, <<>>)>>

\* check_insert_resource
check_insert_resource(cx, args, method_span) ==
    IF Len(args) # 1 THEN <<>>
    ELSE IF match_type(args[1], EVENTS)
    THEN LET event_ty_snippet ==
                 extract_ty_event_snippet(args[1], "MachineApplicable")
         IN  span_lint_and_sugg(INSERT_EVENT_RESOURCE, method_span,
                                add_event(event_ty_snippet.text),
                                event_ty_snippet.to)
    ELSE <<>>

\* check_init_resource
check_init_resource(cx, path, method_span) ==
    IF Len(path.generics) = 1 /\ path.generics[1].kind = "Type"
    THEN LET resource_hir_ty == path.generics[1].ty
             event_ty_snippet ==
                 extract_hir_event_snippet(cx, resource_hir_ty,
                                           "MachineApplicable")
         IN  IF match_type(resource_hir_ty.lowered, EVENTS)
             THEN span_lint_and_sugg(INSERT_EVENT_RESOURCE, method_span,
                                     add_event(event_ty_snippet.text),
                                     event_ty_snippet.to)
             ELSE <<>>
    ELSE <<>>

\* check_expr that matches the receiver's type as it is.
InsertEventResource_check_expr_unpeeled(cx, expr) ==
    IF expr.kind # "MethodCall" THEN <<>>
    ELSE IF ~match_type(expr.receiver, APP) THEN <<>>
    ELSE IF expr.method = "insert_resource"
    THEN check_insert_resource(cx, expr.args, expr.fn_span)
    ELSE IF expr.method = "init_resource"
    THEN check_init_resource(cx, expr, expr.fn_span)
    ELSE <<>>

\* InsertEventResource::check_expr
InsertEventResource_check_expr(cx, expr) ==
    IF expr.kind # "MethodCall" THEN <<>>
    ELSE IF ~match_type(peel_refs(expr.receiver), APP) THEN <<>>
    ELSE IF expr.method = "insert_resource"
    THEN check_insert_resource(cx, expr.args, expr.fn_span)
    ELSE IF expr.method = "init_resource"
    THEN check_init_resource(cx, expr, expr.fn_span)
    ELSE <<>>

\* The expressions check_expr is given:  app.<method>::<generics>(args)
\* with the tokens it is written with.  A written type is a kind, its
\* tokens, the generic arguments of its last segment and what it lowers to.
MyEvent == Adt(<<"MyEvent">>, <<>>)
Position == Adt(<<"Position">>, <<>>)
Events(ty) == Adt(EVENTS, <<ty>>)
TypeArg(tokens, lowered, at) ==
    GenericArg("Type",
               HirTy("Path", Span(at, at + Len(tokens)), <<>>, <<>>, lowered))
\* Events<MyEvent>, Events<E> for a type parameter E, the alias
\* type MyEvents = Events<MyEvent>, and Position, written from token `at` on.
WrittenTypes ==
    {[tokens |-> <<"Events", "<", "MyEvent", ">">>, inner |-> <<"MyEvent">>,
      lowered |-> Events(MyEvent)],
     [tokens |-> <<"Events", "<", "E", ">">>, inner |-> <<"E">>,
      lowered |-> Events(Param("E"))],
     [tokens |-> <<"MyEvents">>, inner |-> <<>>, lowered |-> Events(MyEvent)],
     [tokens |-> <<"Position">>, inner |-> <<>>, lowered |-> Position]}
Written(w, at) ==
    HirTy("Path", Span(at, at + Len(w.tokens)),
          IF w.inner = <<>> THEN <<>>
          ELSE <<TypeArg(w.inner, w.lowered.args[1], at + 2)>>,
          <<>>, w.lowered)

\* app.insert_resource(events) with `events` of the given type
InsertResource(receiver, ty) ==
    [expr |-> Expr("MethodCall", "insert_resource", receiver, <<>>, <<ty>>,
                   "body", Span(1, 7), Span(3, 7), NoSpan),
     source |-> <<"app", ".", "insert_resource", "(", "events", ")">>]
\* app.init_resource::<W>()
InitResource(receiver, w) ==
    [expr |-> Expr("MethodCall", "init_resource", receiver,
                   <<GenericArg("Type", Written(w, 5))>>, <<>>, "body",
                   Span(1, 8 + Len(w.tokens)), Span(3, 8 + Len(w.tokens)),
                   NoSpan),
     source |-> <<"app", ".", "init_resource", "::<">> \o w.tokens
                   \o <<">", "(", ")">>]
\* app.add_event::<MyEvent>() and app.run()
OtherMethod(receiver, method) ==
    [expr |-> Expr("MethodCall", method, receiver, <<>>, <<>>, "body",
                   Span(1, 6), Span(3, 6), NoSpan),
     source |-> <<"app", ".", method, "(", ")">>]
MethodCalls ==
    {InsertResource(r, ty) :
        r \in Receivers, ty \in {Events(MyEvent), Events(Param("E")), Position}}
    \cup {InitResource(r, w) : r \in Receivers, w \in WrittenTypes}
    \cup {OtherMethod(r, m) : r \in Receivers, m \in {"add_event", "run"}}
\* In the crate's own source, in a macro of the crate, in a macro of another
\* crate whose source is not at hand.
Expansions ==
    {[has_source |-> TRUE, from_expansion |-> FALSE],
     [has_source |-> TRUE, from_expansion |-> TRUE],
     [has_source |-> FALSE, from_expansion |-> TRUE]}
ExprNodes ==
    {[pass |-> "check_expr", expr |-> c.expr,
      cx |-> Context(c.source, x.has_source, x.from_expansion)] :
        c \in MethodCalls, x \in Expansions}
ExtractTyNodes ==
    {[pass |-> "extract_ty_event_snippet", ty |-> ty, applicability |-> a] :
        ty \in {Events(MyEvent), Events(Param("E")), Adt(EVENTS, <<>>),
                Ref("", Events(MyEvent))},
        a \in Applicabilities}
ExtractHirNodes ==
    {[pass |-> "extract_hir_event_snippet", hir_ty |-> Written(w, 5),
      cx |-> Context(InitResource(App, w).source, x.has_source,
                     x.from_expansion),
      applicability |-> a] :
        w \in WrittenTypes, x \in Expansions, a \in Applicabilities}

\* ---------------------------------------------------------------------
\* lints/zst_query.rs
\* ---------------------------------------------------------------------

ZST_QUERY == "bevy::zst_query"

\* What the compiler knows of the types of the crate: Marker is a unit
\* struct, Position and Entity have fields, Huge has no layout (it is too
\* big), a type parameter has none either, and an associated type that does
\* not resolve is not normalizable.
Marker == Adt(<<"Marker">>, <<>>)
Entity == Adt(<<"bevy_ecs", "entity", "Entity">>, <<>>)
Huge == Adt(<<"Huge">>, <<>>)
Alias(name) == [kind |-> "Alias", path |-> <<name>>, mutbl |-> "", args |-> <<>>]

\* clippy_utils::ty::is_normalizable
is_normalizable(ty) == ty.kind # "Alias"

\* LayoutOf::layout_of: Ok with the size in bytes, or Err.
RECURSIVE layout_of(_)
layout_of(ty) ==
    CASE ty.kind = "Param" -> [ok |-> FALSE, size |-> 0]
      [] ty.kind = "Alias" -> [ok |-> FALSE, size |-> 0]
      [] ty.kind = "Ref" -> [ok |-> TRUE, size |-> 8]
      [] ty.kind = "Tuple" ->
            IF ty.args = <<>> THEN [ok |-> TRUE, size |-> 0]
            ELSE LET first == layout_of(Head(ty.args))
                     rest == layout_of(Tuple(Tail(ty.args)))
                 IN  [ok |-> first.ok /\ rest.ok, size |-> first.size + rest.size]
      [] ty = Huge -> [ok |-> FALSE, size |-> 0]
      [] ty = Marker -> [ok |-> TRUE, size |-> 0]
      [] ty = Position -> [ok |-> TRUE, size |-> 12]
      [] OTHER -> [ok |-> TRUE, size |-> 8]

\* is_zero_sized: "true", "false", or "none" when the size cannot be told.
is_zero_sized(ty) ==
    IF ~is_normalizable(ty) THEN "none"
    ELSE IF ~layout_of(ty).ok THEN "none"
    ELSE IF layout_of(ty).size = 0 THEN "true" ELSE "false"

\* Option<bool>::unwrap_or_default
unwrap_or_default(option) == option = "true"

\* QueryKind::try_from_ty
QueryKind_try_from_ty(ty) == IF match_type(ty, QUERY) THEN <<"Query">> ELSE <<>>

\* QueryKind::help
QueryKind_help(ty) ==
    <<"consider using a filter instead:", "With", "<">> \o debug_fmt(ty) \o <<">">>

\* utils::hir_parse::generic_type_at: the written type that is the generic
\* argument at `index`, counted from 0, of the last segment of a written
\* path; nothing when the type is not a path with that many arguments or the
\* argument is not a type.
generic_type_at(hir_ty, index) ==
    IF /\ hir_ty.kind = "Path"
       /\ Len(hir_ty.args) > index
       /\ hir_ty.args[index + 1].kind = "Type"
    THEN <<hir_ty.args[index + 1].ty>>
    ELSE <<>>

\* utils::hir_parse::detuple: the elements of a written tuple, and a type
\* that is not a tuple on its own.
detuple(hir_ty) == IF hir_ty.kind = "Tup" THEN hir_ty.elems ELSE <<hir_ty>>

\* The body of the loop of check_ty for the elements, without peel_refs.
RECURSIVE check_elements_unpeeled(_)
check_elements_unpeeled(elements) ==
    IF elements = <<>> THEN <<>>
    ELSE LET hir_ty == Head(elements)
             peeled == hir_ty.lowered
         IN  (IF ~unwrap_or_default(is_zero_sized(peeled)) THEN <<>>
              ELSE <<Diagnostic(ZST_QUERY, hir_ty.span, <<>>,
                                QueryKind_help(peeled))>>)
                \o check_elements_unpeeled(Tail(elements))

\* The loop of check_ty over the elements of the query data.
RECURSIVE check_elements(_)
check_elements(elements) ==
    IF elements = <<>> THEN <<>>
    ELSE LET hir_ty == Head(elements)
             peeled == peel_refs(hir_ty.lowered)
         IN  (IF ~unwrap_or_default(is_zero_sized(peeled)) THEN <<>>
              ELSE <<Diagnostic(ZST_QUERY, hir_ty.span, <<>>,
                                QueryKind_help(peeled))>>)
                \o check_elements(Tail(elements))

\* ZstQuery::check_ty
ZstQuery_check_ty(hir_ty) ==
    IF QueryKind_try_from_ty(hir_ty.lowered) = <<>> THEN <<>>
    ELSE IF generic_type_at(hir_ty, 2) = <<>> THEN <<>>
    ELSE check_elements(detuple(generic_type_at(hir_ty, 2)[1]))

\* The written types check_ty is given.  The elements a query's data is
\* written with:
Elements ==
    {[tokens |-> <<"&", "Marker">>, kind |-> "Ref", lowered |-> Ref("", Marker)],
     [tokens |-> <<"&", "&", "Marker">>, kind |-> "Ref",
      lowered |-> Ref("", Ref("", Marker))],
     [tokens |-> <<"&mut", "Position">>, kind |-> "Ref",
      lowered |-> Ref("mut ", Position)],
     [tokens |-> <<"Entity">>, kind |-> "Path", lowered |-> Entity],
     [tokens |-> <<"&", "T">>, kind |-> "Ref", lowered |-> Ref("", Param("T"))],
     [tokens |-> <<"&", "Assoc">>, kind |-> "Ref",
      lowered |-> Ref("", Alias("Assoc"))],
     [tokens |-> <<"&", "Huge">>, kind |-> "Ref", lowered |-> Ref("", Huge)],
     [tokens |-> <<"()">>, kind |-> "Tup", lowered |-> Tuple(<<>>)]}
Element(e, at) ==
    HirTy(e.kind, Span(at, at + Len(e.tokens)), <<>>, <<>>, e.lowered)
\* (A, B) written from token `at` on
Pair(a, b, at) ==
    HirTy("Tup", Span(at, at + Len(a.tokens) + Len(b.tokens) + 3), <<>>,
          <<Element(a, at + 1), Element(b, at + 2 + Len(a.tokens))>>,
          Tuple(<<a.lowered, b.lowered>>))
QueryData ==
    {Element(e, 3) : e \in Elements}
       \cup {Pair(a, b, 3) : a \in Elements, b \in Elements}
\* Name<'_, '_, D> and Name<'_, '_, D, F>, the lifetimes elided
Generic(path, data, filter) ==
    HirTy("Path", Span(1, data.span.hi + 1 + 2 * Len(filter)),
          <<GenericArg("Lifetime", NoHirTy), GenericArg("Lifetime", NoHirTy),
            GenericArg("Type", data)>> \o filter, <<>>,
          Adt(path, <<data.lowered>>))
\* Query<..>, a type of the crate that is also called Query, the alias
\* type Markers = Query<'static, 'static, &'static Marker>, and a reference
\* to a Query.
TyNodes ==
    {[pass |-> "check_ty", hir_ty |-> Generic(p, d, f)] :
        p \in {QUERY, <<"Query">>}, d \in QueryData,
        f \in {<<>>, <<GenericArg("Type", NoHirTy)>>}}
    \cup {[pass |-> "check_ty",
           hir_ty |-> HirTy("Path", Span(1, 2), <<>>, <<>>,
                            Adt(QUERY, <<Ref("", Marker)>>))],
          [pass |-> "check_ty",
           hir_ty |-> HirTy("Ref", Span(1, 7), <<>>, <<>>,
                            Ref("", Adt(QUERY, <<Ref("", Marker)>>)))]}

NoNode == [pass |-> "none"]
FnNodes == {[pass |-> "check_fn", fn |-> f] : f \in Functions}
NoSnippet == Snippet(<<>>, "", "")

VARIABLES
    LINT_CONFIG,      \* the BTreeMap inside the static RwLock
    lock,             \* the RwLock: writer, readers, poisoned
    world,            \* what the current session is run against
    compiler_config,  \* the session's rustc_interface::Config
    pc,               \* where the driver thread is
    locals,           \* load_config's locals: linter_config, loop index, exit taken
    old_config,       \* LINT_CONFIG when load_config took the write lock
    committed,        \* LINT_CONFIG as the last load_config that returned left it
    reader,           \* the lint thread inside with_config
    driver_config,    \* the Config as the driver built it
    unchanged,        \* this session's world is the one the last completed load saw
    debug_assertions, \* cfg!(debug_assertions) of the build
    REGISTERED_TOOLS, \* the static holding the saved registered_tools query
    INIT,             \* the Once inside the override_queries closure
    providers,        \* the session's Providers: original query, installed query
    lint_store,       \* the registrations made by the register_lints hook, in order
    tools             \* what the registered_tools query returned

VARIABLES
    lint_pass,        \* the lint pass method the late-lint visitor is inside
    node,             \* the HIR node it was called with
    diagnostics,      \* what the call has emitted, in order
    snippet           \* what a snippet helper returned, with its applicability

build_vars == <<world, driver_config, unchanged, debug_assertions>>
lint_vars == <<lint_pass, node, diagnostics, snippet>>
callback_vars == <<REGISTERED_TOOLS, INIT, providers, lint_store, tools>>
vars == <<LINT_CONFIG, lock, world, compiler_config, pc, locals, old_config,
          committed, reader, driver_config, unchanged, debug_assertions,
          REGISTERED_TOOLS, INIT, providers, lint_store, tools,
          lint_pass, node, diagnostics, snippet>>
config_vars == <<LINT_CONFIG, lock, world, compiler_config, pc, locals,
                 old_config, committed, reader, driver_config, unchanged,
                 debug_assertions, REGISTERED_TOOLS, INIT, providers,
                 lint_store, tools>>

Init ==
    /\ LINT_CONFIG = {}
    /\ lock = [writer |-> FALSE, readers |-> 0, poisoned |-> FALSE]
    /\ world = NoWorld
    /\ compiler_config = NoConfig
    /\ pc = "idle"
    /\ locals = NoLocals
    /\ old_config = {}
    /\ committed = {}
    /\ reader = IdleReader
    /\ driver_config = NoConfig
    /\ unchanged = FALSE
    /\ debug_assertions \in BOOLEAN
    /\ REGISTERED_TOOLS = Placeholder
    /\ INIT = FALSE
    /\ providers = NoProviders
    /\ lint_store = <<>>
    /\ tools = {}
    /\ lint_pass = "none"
    /\ node = NoNode
    /\ diagnostics = <<>>
    /\ snippet = NoSnippet

\* The driver builds a Config and calls BevyLintCallback::config.
StartSession ==
    /\ pc = "idle"
    /\ \E w \in Worlds, opts \in {<<>>, <<PriorOption>>},
          hook \in {<<>>, <<"other">>}, queries \in {None, "other"} :
          /\ world' = w
          /\ unchanged' = (w = world)
          /\ compiler_config' = NewConfig(w.input, opts, hook, queries)
          /\ driver_config' = NewConfig(w.input, opts, hook, queries)
    /\ pc' = "load_config"
    /\ UNCHANGED <<LINT_CONFIG, lock, locals, old_config, committed, reader,
                   debug_assertions>>
    /\ UNCHANGED callback_vars
    /\ UNCHANGED lint_vars

\* load_config: LINT_CONFIG.write().unwrap()
LoadConfigLock ==
    /\ pc = "load_config"
    /\ ~lock.writer /\ lock.readers = 0
    /\ IF lock.poisoned
       THEN /\ pc' = "panicked"
            /\ UNCHANGED <<lock, old_config>>
       ELSE /\ lock' = [lock EXCEPT !.writer = TRUE]
            /\ old_config' = LINT_CONFIG
            /\ pc' = "clear"
    /\ UNCHANGED <<LINT_CONFIG, compiler_config, locals, committed, reader>>
    /\ UNCHANGED build_vars
    /\ UNCHANGED callback_vars
    /\ UNCHANGED lint_vars

\* load_config without lint_config.clear().
LoadConfigNoClear ==
    /\ pc = "clear"
    /\ pc' = "read"
    /\ UNCHANGED <<LINT_CONFIG, lock, compiler_config, locals, old_config, committed,
                   reader>>
    /\ UNCHANGED build_vars
    /\ UNCHANGED callback_vars
    /\ UNCHANGED lint_vars

\* load_config: lint_config.clear()
LoadConfigClear ==
    /\ pc = "clear"
    /\ LINT_CONFIG' = {}
    /\ pc' = "read"
    /\ UNCHANGED <<lock, compiler_config, locals, old_config, committed, reader>>
    /\ UNCHANGED build_vars
    /\ UNCHANGED callback_vars
    /\ UNCHANGED lint_vars

\* load_config from was_invoked_from_cargo() to the end of
\* append_lint_levels_to_options.
LoadConfigRead ==
    /\ pc = "read"
    /\ LET manifest == load_cargo_manifest(world.fs, compiler_config.input)
           appended == append_lint_levels_to_options(compiler_config.lint_opts,
                                                     manifest.entries)
       IN  IF ~world.cargo
           THEN /\ locals' = [locals EXCEPT !.exit = "not_cargo"]
                /\ pc' = "return"
                /\ UNCHANGED <<compiler_config, lock>>
           ELSE IF manifest = NoFile
           THEN /\ locals' = [locals EXCEPT !.exit = "no_manifest"]
                /\ pc' = "return"
                /\ UNCHANGED <<compiler_config, lock>>
           ELSE IF manifest.bevy_lint # "table"
           THEN /\ locals' = [locals EXCEPT !.exit = "no_section"]
                /\ pc' = "return"
                /\ UNCHANGED <<compiler_config, lock>>
           ELSE /\ compiler_config' =
                      [compiler_config EXCEPT !.lint_opts = appended.lint_opts]
                /\ IF appended.panicked
                   THEN \* the write guard is dropped while unwinding
                        /\ lock' = [lock EXCEPT !.writer = FALSE, !.poisoned = TRUE]
                        /\ locals' = [locals EXCEPT
                                         !.linter_config = manifest.entries,
                                         !.exit = "unwrap_none"]
                        /\ pc' = "panicked"
                   ELSE /\ locals' = [locals EXCEPT
                                         !.linter_config = manifest.entries, !.i = 1]
                        /\ pc' = "insert"
                        /\ UNCHANGED lock
    /\ UNCHANGED <<LINT_CONFIG, old_config, committed, reader>>
    /\ UNCHANGED build_vars
    /\ UNCHANGED callback_vars
    /\ UNCHANGED lint_vars

\* The loop iteration without extra_config.remove("level").
LoadConfigInsertKeepsLevel ==
    /\ pc = "insert"
    /\ locals.i <= Len(locals.linter_config)
    /\ LET k == locals.linter_config[locals.i].name
           v == locals.linter_config[locals.i].item
       IN  IF v.kind = "InlineTable" /\ v.tbl # {}
           THEN LINT_CONFIG' = map_insert(LINT_CONFIG, k, v.tbl)
           ELSE UNCHANGED LINT_CONFIG
    /\ locals' = [locals EXCEPT !.i = locals.i + 1]
    /\ UNCHANGED <<lock, compiler_config, pc, old_config, committed, reader>>
    /\ UNCHANGED build_vars
    /\ UNCHANGED callback_vars
    /\ UNCHANGED lint_vars

\* One iteration of load_config's `for (k, v) in linter_config`.
LoadConfigInsert ==
    /\ pc = "insert"
    /\ locals.i <= Len(locals.linter_config)
    /\ LET k == locals.linter_config[locals.i].name
           v == locals.linter_config[locals.i].item
           extra_config == table_remove(v.tbl, "level")
       IN  IF v.kind = "InlineTable" /\ extra_config # {}
           THEN LINT_CONFIG' = map_insert(LINT_CONFIG, k, extra_config)
           ELSE UNCHANGED LINT_CONFIG
    /\ locals' = [locals EXCEPT !.i = locals.i + 1]
    /\ UNCHANGED <<lock, compiler_config, pc, old_config, committed, reader>>
    /\ UNCHANGED build_vars
    /\ UNCHANGED callback_vars
    /\ UNCHANGED lint_vars

\* The loop is over: load_config falls off its end.
LoadConfigDone ==
    /\ pc = "insert"
    /\ locals.i > Len(locals.linter_config)
    /\ locals' = [locals EXCEPT !.exit = "loaded"]
    /\ pc' = "return"
    /\ UNCHANGED <<LINT_CONFIG, lock, compiler_config, old_config, committed, reader>>
    /\ UNCHANGED build_vars
    /\ UNCHANGED callback_vars
    /\ UNCHANGED lint_vars

\* load_config returns: the write guard is dropped.
LoadConfigReturn ==
    /\ pc = "return"
    /\ lock' = [lock EXCEPT !.writer = FALSE]
    /\ committed' = LINT_CONFIG
    /\ pc' = "loaded"
    /\ UNCHANGED <<LINT_CONFIG, compiler_config, locals, old_config, reader>>
    /\ UNCHANGED build_vars
    /\ UNCHANGED callback_vars
    /\ UNCHANGED lint_vars

\* BevyLintCallback::config after load_config: the register_lints hook is
\* replaced by a closure that owns the previous one, then override_queries
\* is set unless the debug assertion fails first.
BevyLintCallback_config ==
    /\ pc = "loaded"
    /\ LET previous == compiler_config.register_lints
           hooked == [compiler_config EXCEPT
                        !.register_lints = bevy_register_lints(previous)]
       IN  IF debug_assertions /\ compiler_config.override_queries # None
           THEN /\ compiler_config' = hooked
                /\ pc' = "panicked"
           ELSE /\ compiler_config' = [hooked EXCEPT !.override_queries = "bevy"]
                /\ pc' = "configured"
    /\ UNCHANGED <<LINT_CONFIG, lock, locals, old_config, committed, reader>>
    /\ UNCHANGED build_vars
    /\ UNCHANGED callback_vars
    /\ UNCHANGED lint_vars

\* The compiler builds the lint store and calls the register_lints hook.
RunRegisterLints ==
    /\ pc = "configured"
    /\ lint_store' = run_register_lints(compiler_config.register_lints)
    /\ pc' = "registered"
    /\ UNCHANGED <<LINT_CONFIG, lock, compiler_config, locals, old_config, committed,
                   reader, REGISTERED_TOOLS, INIT, providers, tools>>
    /\ UNCHANGED build_vars
    /\ UNCHANGED lint_vars

\* The compiler builds the session's Providers and calls the override_queries
\* closure of callback.rs on them.
RunOverrideQueries ==
    /\ pc = "registered"
    /\ compiler_config.override_queries = "bevy"
    /\ \E query \in RustcQueries :
          /\ IF ~INIT
             THEN REGISTERED_TOOLS' = query
             ELSE UNCHANGED REGISTERED_TOOLS
          /\ providers' = [original |-> query, registered_tools |-> Replacement]
    /\ INIT' = TRUE
    /\ pc' = "overridden"
    /\ UNCHANGED <<LINT_CONFIG, lock, compiler_config, locals, old_config, committed,
                   reader, lint_store, tools>>
    /\ UNCHANGED build_vars
    /\ UNCHANGED lint_vars

\* The compiler runs the registered_tools query of the session's Providers.
CallRegisteredTools ==
    /\ pc = "overridden"
    /\ LET result == registered_tools(REGISTERED_TOOLS)
       IN  IF result.returns
           THEN /\ tools' = result.tools
                /\ pc' = "queried"
           ELSE /\ tools' = {}
                /\ pc' = result.fate
    /\ UNCHANGED <<LINT_CONFIG, lock, compiler_config, locals, old_config, committed,
                   reader, REGISTERED_TOOLS, INIT, providers, lint_store>>
    /\ UNCHANGED build_vars
    /\ UNCHANGED lint_vars

\* The session ends, normally or by a panic the driver catches; the driver
\* may run another one.
EndSession ==
    /\ pc \in {"queried", "panicked"}
    /\ pc' = "idle"
    /\ world' = IF locals.exit \in Returns THEN world ELSE NoWorld
    /\ compiler_config' = NoConfig
    /\ driver_config' = NoConfig
    /\ locals' = NoLocals
    /\ old_config' = {}
    /\ unchanged' = FALSE
    /\ providers' = NoProviders
    /\ lint_store' = <<>>
    /\ tools' = {}
    /\ UNCHANGED <<LINT_CONFIG, lock, committed, reader, debug_assertions,
                   REGISTERED_TOOLS, INIT>>
    /\ UNCHANGED lint_vars

\* with_config reading the map without waiting for the writer.
WithConfigNoLock ==
    /\ reader.pc \in {"idle", "panicked"}
    /\ \E name \in LintNames, func \in Closures :
          IF lock.poisoned
          THEN /\ reader' = [IdleReader EXCEPT !.pc = "panicked"]
               /\ UNCHANGED lock
          ELSE /\ reader' = [IdleReader EXCEPT !.pc = "locked", !.name = name,
                                               !.func = func]
               /\ lock' = [lock EXCEPT !.readers = lock.readers + 1]
    /\ UNCHANGED <<LINT_CONFIG, compiler_config, pc, locals, old_config, committed>>
    /\ UNCHANGED build_vars
    /\ UNCHANGED callback_vars
    /\ UNCHANGED lint_vars

\* with_config: LINT_CONFIG.read().unwrap()
WithConfigLock ==
    /\ reader.pc \in {"idle", "panicked"}
    /\ ~lock.writer
    /\ \E name \in LintNames, func \in Closures :
          IF lock.poisoned
          THEN /\ reader' = [IdleReader EXCEPT !.pc = "panicked"]
               /\ UNCHANGED lock
          ELSE /\ reader' = [IdleReader EXCEPT !.pc = "locked", !.name = name,
                                               !.func = func]
               /\ lock' = [lock EXCEPT !.readers = lock.readers + 1]
    /\ UNCHANGED <<LINT_CONFIG, compiler_config, pc, locals, old_config, committed>>
    /\ UNCHANGED build_vars
    /\ UNCHANGED callback_vars
    /\ UNCHANGED lint_vars

\* with_config that returns without calling func when there is no entry.
WithConfigCallSkipsAbsent ==
    /\ reader.pc = "locked"
    /\ IF map_contains(LINT_CONFIG, reader.name)
       THEN reader' = [reader EXCEPT
                         !.pc = "called",
                         !.arg = map_get(LINT_CONFIG, reader.name),
                         !.calls = reader.calls + 1,
                         !.ret = call(reader.func, map_get(LINT_CONFIG, reader.name))]
       ELSE reader' = [reader EXCEPT !.pc = "called"]
    /\ UNCHANGED <<LINT_CONFIG, lock, compiler_config, pc, locals, old_config,
                   committed>>
    /\ UNCHANGED build_vars
    /\ UNCHANGED callback_vars
    /\ UNCHANGED lint_vars

\* with_config: the match on config_map.get(name) and the call of func.
WithConfigCall ==
    /\ reader.pc = "locked"
    /\ LET arg == IF map_contains(LINT_CONFIG, reader.name)
                  THEN map_get(LINT_CONFIG, reader.name)
                  ELSE InlineTable_new
       IN  reader' = [reader EXCEPT !.pc = "called", !.arg = arg,
                                    !.calls = reader.calls + 1,
                                    !.ret = call(reader.func, arg)]
    /\ UNCHANGED <<LINT_CONFIG, lock, compiler_config, pc, locals, old_config,
                   committed>>
    /\ UNCHANGED build_vars
    /\ UNCHANGED callback_vars
    /\ UNCHANGED lint_vars

\* with_config returns func's result: the read guard is dropped.
WithConfigReturn ==
    /\ reader.pc = "called"
    /\ reader' = IdleReader
    /\ lock' = [lock EXCEPT !.readers = lock.readers - 1]
    /\ UNCHANGED <<LINT_CONFIG, compiler_config, pc, locals, old_config, committed>>
    /\ UNCHANGED build_vars
    /\ UNCHANGED callback_vars
    /\ UNCHANGED lint_vars

Next ==
    \/ StartSession
    \/ LoadConfigLock
    \/ LoadConfigClear
    \/ LoadConfigRead
    \/ LoadConfigInsert
    \/ LoadConfigDone
    \/ LoadConfigReturn
    \/ BevyLintCallback_config
    \/ RunRegisterLints
    \/ RunOverrideQueries
    \/ CallRegisteredTools
    \/ EndSession
    \/ WithConfigLock
    \/ WithConfigCall
    \/ WithConfigReturn

Spec == Init /\ [][Next]_vars

\* ---------------------------------------------------------------------
\* The lint passes, each applied to a node the late-lint visitor reaches.
\* ---------------------------------------------------------------------

\* MainReturnWithoutAppExit::check_fn called with a function.
CheckFn ==
    /\ lint_pass = "none"
    /\ node.pass = "check_fn"
    /\ lint_pass' = "check_fn"
    /\ diagnostics' = MainReturnWithoutAppExit_check_fn(node.fn)
    /\ UNCHANGED <<node, snippet>>
    /\ UNCHANGED config_vars

\* InsertEventResource::check_expr called with an expression.
CheckExpr ==
    /\ lint_pass = "none"
    /\ node.pass = "check_expr"
    /\ lint_pass' = "check_expr"
    /\ diagnostics' = InsertEventResource_check_expr(node.cx, node.expr)
    /\ UNCHANGED <<node, snippet>>
    /\ UNCHANGED config_vars

\* extract_ty_event_snippet called with a type and an applicability.
ExtractTyEventSnippet ==
    /\ lint_pass = "none"
    /\ node.pass = "extract_ty_event_snippet"
    /\ lint_pass' = "extract_ty_event_snippet"
    /\ snippet' = extract_ty_event_snippet(node.ty, node.applicability)
    /\ UNCHANGED <<node, diagnostics>>
    /\ UNCHANGED config_vars

\* extract_hir_event_snippet called with a written type and an applicability.
ExtractHirEventSnippet ==
    /\ lint_pass = "none"
    /\ node.pass = "extract_hir_event_snippet"
    /\ lint_pass' = "extract_hir_event_snippet"
    /\ snippet' = extract_hir_event_snippet(node.cx, node.hir_ty,
                                            node.applicability)
    /\ UNCHANGED <<node, diagnostics>>
    /\ UNCHANGED config_vars

\* ZstQuery::check_ty called with a written type.
CheckTy ==
    /\ lint_pass = "none"
    /\ node.pass = "check_ty"
    /\ lint_pass' = "check_ty"
    /\ diagnostics' = ZstQuery_check_ty(node.hir_ty)
    /\ UNCHANGED <<node, snippet>>
    /\ UNCHANGED config_vars

Nodes ==
    FnNodes \cup ExprNodes \cup ExtractTyNodes \cup ExtractHirNodes \cup TyNodes

InitLint ==
    /\ LINT_CONFIG = {}
    /\ lock = [writer |-> FALSE, readers |-> 0, poisoned |-> FALSE]
    /\ world = NoWorld
    /\ compiler_config = NoConfig
    /\ pc = "idle"
    /\ locals = NoLocals
    /\ old_config = {}
    /\ committed = {}
    /\ reader = IdleReader
    /\ driver_config = NoConfig
    /\ unchanged = FALSE
    /\ debug_assertions = FALSE
    /\ REGISTERED_TOOLS = Placeholder
    /\ INIT = FALSE
    /\ providers = NoProviders
    /\ lint_store = <<>>
    /\ tools = {}
    /\ lint_pass = "none"
    /\ node \in Nodes
    /\ diagnostics = <<>>
    /\ snippet = NoSnippet

NextLint ==
    \/ CheckFn
    \/ CheckExpr
    \/ ExtractTyEventSnippet
    \/ ExtractHirEventSnippet
    \/ CheckTy

SpecLint == InitLint /\ [][NextLint]_vars

(***************************************************************************)
(* Properties of the configuration overlay.                                *)
(***************************************************************************)

\* The parameter tables a section leaves in the map: for each inline-table
\* entry, its table without `level`, unless nothing is left.
ParametersOf(entries) ==
    { <<entries[i].name, {p \in entries[i].item.tbl : p[1] # "level"}>> :
        i \in { j \in 1..Len(entries) :
                  /\ entries[j].item.kind = "InlineTable"
                  /\ \E p \in entries[j].item.tbl : p[1] # "level" } }

\* What with_config passes to func for `name` when the map is `map`.
Visible(map, name) ==
    IF \E p \in map : p[1] = name
    THEN (CHOOSE p \in map : p[1] = name)[2]
    ELSE {}

\* Where the driver thread is once load_config has returned in this session.
AfterReturn == {"loaded", "configured", "registered", "overridden", "queried"}

\* C1: once load_config has returned, the map depends on this session's
\* manifest alone: it is empty when the process was not invoked from cargo,
\* when no manifest could be located, read and parsed, or when the section
\* is absent or not a table; otherwise it holds the section's parameter
\* tables and nothing of the previous map; and a load against the world the
\* previous load saw leaves the map as that load left it.
C1_MapIsFunctionOfManifest ==
    pc \in AfterReturn =>
        LET manifest == load_cargo_manifest(world.fs, driver_config.input)
        IN  /\ (~world.cargo \/ manifest = NoFile \/ manifest.bevy_lint # "table")
                  => LINT_CONFIG = {}
            /\ (world.cargo /\ manifest # NoFile /\ manifest.bevy_lint = "table")
                  => LINT_CONFIG = ParametersOf(manifest.entries)
            /\ unchanged => LINT_CONFIG = old_config

\* C1 witness: a load that found no section has emptied a map that had entries.
C1_Witness ==
    /\ pc = "loaded"
    /\ locals.exit = "no_section"
    /\ old_config # {}
    /\ LINT_CONFIG = {}

\* C1 witness of the second half: a second load against an unchanged manifest.
C1_WitnessReload ==
    /\ pc = "loaded"
    /\ unchanged
    /\ LINT_CONFIG # {}

\* C2: with_config(name, f) invokes f exactly once, with the stored table
\* when the map has an entry for name and with an empty table otherwise,
\* returns what f returned, and leaves the map as it was.
C2_WithConfigCallsOnce ==
    /\ [](reader.pc = "called" =>
            /\ reader.calls = 1
            /\ reader.arg = Visible(LINT_CONFIG, reader.name)
            /\ reader.ret = call(reader.func, reader.arg))
    /\ [][reader' # reader => LINT_CONFIG' = LINT_CONFIG]_vars

\* C2 witnesses: f has been called with a stored table; f has been called
\* with the empty table because the map has no entry.
C2_Witness ==
    /\ reader.pc = "called"
    /\ reader.arg # {}
    /\ reader.ret # {}

C2_WitnessAbsent ==
    /\ reader.pc = "called"
    /\ LINT_CONFIG # {}
    /\ ~\E p \in LINT_CONFIG : p[1] = reader.name
    /\ reader.arg = {}

\* The session's input file lies in a package whose manifest has the
\* reserved section as a table.
EnclosedByConfiguredManifest ==
    /\ world.cargo
    /\ driver_config.input.file
    /\ SubSeq(driver_config.input.path, 1, 1) = <<"/p">>
    /\ world.fs.manifest.exists
    /\ world.fs.manifest.parses
    /\ world.fs.manifest.bevy_lint = "table"

\* C3: when a manifest encloses the input file and has the reserved section,
\* locate_project, started from the input file's directory, returns the path
\* of that manifest, the path can be read, and after load_config the map
\* holds the parameter tables of that manifest's entries.
C3_LoadsEnclosingManifest ==
    (EnclosedByConfiguredManifest /\ pc \in {"return", "loaded"}) =>
        /\ locate_project(world.fs, driver_config.input.path, FALSE).path = ManifestPath
        /\ locals.exit = "loaded"
        /\ LINT_CONFIG = ParametersOf(world.fs.manifest.entries)

\* The entry of the section load_config read that is named k.
HasEntry(k) == \E i \in 1..Len(locals.linter_config) : locals.linter_config[i].name = k
EntryOf(k) ==
    locals.linter_config[CHOOSE i \in 1..Len(locals.linter_config) :
                            locals.linter_config[i].name = k].item

\* load_config has run to its end in this session and has returned.
AfterLoad ==
    /\ pc \in AfterReturn
    /\ locals.exit = "loaded"

\* C4: after load_config, for every entry k of the section, with_config(k, ..)
\* passes the empty table when the entry is a scalar and the entry's table
\* without `level` when the entry is an inline table; no table stored in the
\* map has a `level` key.
C4_VisibleParameters ==
    /\ (AfterLoad /\ reader.pc = "called" /\ HasEntry(reader.name)) =>
          reader.arg = IF EntryOf(reader.name).kind = "InlineTable"
                       THEN {p \in EntryOf(reader.name).tbl : p[1] # "level"}
                       ELSE {}
    /\ \A e \in LINT_CONFIG : \A p \in e[2] : p[1] # "level"

\* C4 witness: with_config has passed the parameters of an entry that is a
\* table with a level, the level removed.
C4_Witness ==
    /\ AfterLoad
    /\ reader.pc = "called"
    /\ HasEntry(reader.name)
    /\ EntryOf(reader.name).kind = "InlineTable"
    /\ \E p \in EntryOf(reader.name).tbl : p[1] = "level"
    /\ reader.arg # {}

\* The severity text an entry carries, if it carries one as a string.
SeverityOf(item) ==
    IF item.kind = "String" THEN item.s
    ELSE IF \E p \in item.tbl : p[1] = "level" /\ p[2].ty = "String"
    THEN (CHOOSE p \in item.tbl : p[1] = "level")[2].s
    ELSE ""

Severities == {"allow", "warn", "deny", "forbid"}

\* An entry that is neither a severity string nor an inline table whose
\* `level`, if any, is a severity string.
Malformed(entry) ==
    \/ entry.item.kind \notin {"String", "InlineTable"}
    \/ entry.item.kind = "String" /\ entry.item.s \notin Severities
    \/ /\ entry.item.kind = "InlineTable"
       /\ \E p \in entry.item.tbl : p[1] = "level"
       /\ SeverityOf(entry.item) \notin Severities

WellFormed(entry) == ~Malformed(entry)

\* The options a section adds: one per entry with a recognized severity,
\* in manifest order.
OptionOf(entry) ==
    << "bevy::" \o entry.name,
       CASE SeverityOf(entry.item) = "allow" -> "Allow"
         [] SeverityOf(entry.item) = "warn" -> "Warn"
         [] SeverityOf(entry.item) = "deny" -> "Deny"
         [] OTHER -> "Forbid" >>

HasSeverity(entry) ==
    /\ entry.item.kind \in {"String", "InlineTable"}
    /\ SeverityOf(entry.item) \in Severities

OptionsOf(entries) ==
    LET chosen == SelectSeq(entries, HasSeverity)
    IN  [i \in 1..Len(chosen) |-> OptionOf(chosen[i])]

\* C5: a malformed entry is ignored: load_config does not end abnormally
\* because of it, it adds no option, and the options and parameters of the
\* other entries are those of the section without the malformed entries.
C5_MalformedEntryIgnored ==
    /\ ~(pc = "panicked" /\ locals.exit = "unwrap_none")
    /\ (pc = "loaded" /\ locals.exit = "loaded") =>
          LET others == SelectSeq(locals.linter_config, WellFormed)
          IN  /\ compiler_config.lint_opts =
                    driver_config.lint_opts \o OptionsOf(others)
              /\ \A i \in 1..Len(others) :
                    Visible(LINT_CONFIG, others[i].name)
                       = Visible(ParametersOf(others), others[i].name)

\* C6: load_config appends, after the options the driver gave and in manifest
\* order, exactly one (bevy::<name>, level) for every entry whose severity is
\* allow, warn, deny or forbid, and nothing for the others; the options the
\* driver gave stay where they were.
C6_LevelsAppended ==
    /\ (pc \in AfterReturn /\ locals.exit = "loaded") =>
          compiler_config.lint_opts
             = driver_config.lint_opts \o OptionsOf(locals.linter_config)
    /\ (pc \in AfterReturn /\ locals.exit # "loaded") =>
          compiler_config.lint_opts = driver_config.lint_opts
    /\ /\ Len(driver_config.lint_opts) <= Len(compiler_config.lint_opts)
       /\ SubSeq(compiler_config.lint_opts, 1, Len(driver_config.lint_opts))
             = driver_config.lint_opts

\* C6 witness: two levels have been appended after an option of the driver,
\* from a section that also has an entry without a recognized severity.
C6_Witness ==
    /\ pc = "loaded"
    /\ locals.exit = "loaded"
    /\ driver_config.lint_opts # <<>>
    /\ Len(compiler_config.lint_opts) = Len(driver_config.lint_opts) + 2
    /\ Len(locals.linter_config) = 3

\* C7: a with_config call never sees the map between load_config's clear and
\* its last insert: while it holds the read lock no load is under way, the
\* map is the one the last completed load left, and that is what func gets.
C7_ReadersSeeCompleteMap ==
    reader.pc \in {"locked", "called"} =>
        /\ pc \notin {"clear", "read", "insert", "return"}
        /\ LINT_CONFIG = committed
        /\ reader.pc = "called" => reader.arg = Visible(committed, reader.name)

\* C7 witness: a load waits for the write lock while with_config, holding
\* the read lock, has passed a stored table to func.
C7_Witness ==
    /\ pc = "load_config"
    /\ reader.pc = "called"
    /\ reader.arg # {}
    /\ ParametersOf(world.fs.shadow.entries) # committed

(***************************************************************************)
(* Properties of the callback.                                             *)
(***************************************************************************)

BevyRegistrations ==
    <<"lints::register_lints", "lints::register_passes", "groups::register_groups">>

\* C8: the installed register_lints hook calls the hook that was installed
\* before it exactly once and first, then registers lints, passes and groups
\* in that order; and the hook is installed and run only after load_config
\* has returned.
C8_HookChainsToPrevious ==
    /\ pc \in {"registered", "overridden", "queried"} =>
          lint_store = driver_config.register_lints \o BevyRegistrations
    /\ compiler_config.register_lints # driver_config.register_lints =>
          locals.exit \in Returns
    /\ lint_store # <<>> => locals.exit \in Returns

\* C8 witness: the hook has run in a session whose driver had installed one.
C8_Witness ==
    /\ pc = "registered"
    /\ driver_config.register_lints = <<"other">>
    /\ Len(lint_store) = 4

\* C9: when override_queries is already set as BevyLintCallback::config
\* runs, the process aborts; config never completes with the driver's hook
\* replaced.
C9_ConflictingHookAborts ==
    driver_config.override_queries # None =>
        /\ pc \notin {"configured", "registered", "overridden", "queried"}
        /\ compiler_config.override_queries = driver_config.override_queries

\* C10: in every session the replacement query returns what the query that
\* was in the session's Providers just before the replacement was installed
\* returns, plus `bevy`; when it is called the saved original is neither the
\* replacement nor the placeholder.
C10_ReplacementCallsSessionOriginal ==
    /\ pc = "overridden" => REGISTERED_TOOLS \notin {Placeholder, Replacement}
    /\ pc \notin {"diverged"}
    /\ pc = "queried" =>
          tools = rustc_registered_tools(providers.original) \cup {"bevy"}

\* C17: whatever loads came before, among them loads that ended abnormally
\* while holding the write lock, load_config and with_config never fail to
\* take the lock, and a load that failed leaves the lock usable and the map
\* empty.
C17_LockUsableAfterFailedLoad ==
    /\ ~(pc = "panicked" /\ locals.exit = "")
    /\ reader.pc # "panicked"
    /\ (pc = "panicked" /\ locals.exit = "unwrap_none") =>
          /\ ~lock.poisoned
          /\ LINT_CONFIG = {}

\* The source after a suggestion is applied to it.
Apply(source, suggestion) ==
    SubSeq(source, 1, suggestion.span.lo - 1)
       \o suggestion.text
       \o SubSeq(source, suggestion.span.hi, Len(source))

\* The function check_fn was called with, read off its source: whether it
\* declares no return type, or the unit type.
DeclaresNoReturn(f) == f.source[5] = "{"
DeclaresUnit(f) == f.source[5] = "->" /\ f.source[6] = "()"

\* A call of `run` on a receiver of type App that is not in a nested item.
IsAppRun(e) ==
    /\ e.kind = "MethodCall"
    /\ e.method = "run"
    /\ e.receiver = App
    /\ e.within # "item"

\* C12: check_fn emits a diagnostic for a method call exactly when the
\* function is the entry point, declares no return type or the unit type,
\* the method is `run` and the receiver's type is App: one diagnostic for
\* each such call of the body, nested expressions included, in order, at the
\* call, and none when the entry point returns another type.
C12_OneDiagnosticPerAppRun ==
    lint_pass = "check_fn" =>
        LET f == node.fn
            expected ==
                IF f.is_entrypoint /\ (DeclaresNoReturn(f) \/ DeclaresUnit(f))
                THEN SelectSeq(f.body, IsAppRun)
                ELSE <<>>
        IN  /\ Len(diagnostics) = Len(expected)
            /\ \A i \in 1..Len(expected) :
                  /\ diagnostics[i].lint = MAIN_RETURN_WITHOUT_APPEXIT
                  /\ diagnostics[i].span = expected[i].fn_span

C12_Witness ==
    /\ lint_pass = "check_fn"
    /\ node.fn.is_entrypoint /\ DeclaresUnit(node.fn)
    /\ Len(node.fn.body) = 2
    /\ IsAppRun(node.fn.body[1]) /\ IsAppRun(node.fn.body[2])
    /\ node.fn.body[2].within = "closure"
    /\ Len(diagnostics) = 2

C12_WitnessOtherReturn ==
    /\ lint_pass = "check_fn"
    /\ node.fn.is_entrypoint
    /\ ~DeclaresNoReturn(node.fn) /\ ~DeclaresUnit(node.fn)
    /\ Len(node.fn.body) = 1 /\ IsAppRun(node.fn.body[1])
    /\ diagnostics = <<>>

\* C13: for an entry point that declares no return type and whose body is
\* one discarded call of `run` on an App, there is one diagnostic, it is at
\* the call, and its suggestion both puts `-> AppExit` where the return type
\* goes and removes the `;` after the call.
C13_SuggestionRemovesTerminator ==
    (/\ lint_pass = "check_fn"
     /\ node.fn.is_entrypoint /\ DeclaresNoReturn(node.fn)
     /\ Len(node.fn.body) = 1
     /\ IsAppRun(node.fn.body[1])
     /\ node.fn.body[1].semi # NoSpan) =>
        LET run_call == node.fn.body[1]
        IN  /\ Len(diagnostics) = 1
            /\ diagnostics[1].span \in {run_call.span, run_call.fn_span}
            /\ \E i \in 1..Len(diagnostics[1].suggestions) :
                  /\ diagnostics[1].suggestions[i].span = node.fn.output.span
                  /\ diagnostics[1].suggestions[i].text = <<"->", "AppExit">>
            /\ \E i \in 1..Len(diagnostics[1].suggestions) :
                  /\ diagnostics[1].suggestions[i].span = run_call.semi
                  /\ diagnostics[1].suggestions[i].text = <<>>

\* C18: applying the return-type suggestion gives a signature that declares
\* the return type once, fn main() -> AppExit, both when the entry point
\* declares no return type and when it declares the unit type: no doubled
\* arrow, no unit type left behind.
C18_SuggestionGivesOneReturnType ==
    lint_pass = "check_fn" =>
        \A i \in 1..Len(diagnostics) :
            \A j \in 1..Len(diagnostics[i].suggestions) :
                LET applied == Apply(node.fn.source, diagnostics[i].suggestions[j])
                IN  SubSeq(applied, 1, 7)
                       = <<"fn", "main", "(", ")", "->", "AppExit", "{">>

\* An expression with the references taken off its receiver's type.
Unreferenced(e) == [e EXCEPT !.receiver = peel_refs(e.receiver)]

\* C11: a receiver that is an App behind any number of references is
\* recognized exactly as an App is, by every lint that tests the receiver
\* against App: main_return_without_appexit and insert_event_resource emit
\* for &App, &mut App, &&mut App what they emit for App.
C11_ReferencesDoNotMatter ==
    /\ lint_pass = "check_fn" =>
          diagnostics =
             MainReturnWithoutAppExit_check_fn(
                [node.fn EXCEPT !.body = [i \in 1..Len(node.fn.body) |->
                                             Unreferenced(node.fn.body[i])]])
    /\ lint_pass = "check_expr" =>
          diagnostics =
             InsertEventResource_check_expr(node.cx, Unreferenced(node.expr))

\* The event type a flagged call is about, and how the source names it.
IsEvents(ty) == ty.kind = "Adt" /\ ty.path = EVENTS
EventTypeOf(e) ==
    IF e.method = "insert_resource" THEN e.args[1].args[1]
    ELSE e.generics[1].ty.lowered.args[1]
SourceName(ty) == IF ty.kind = "Param" THEN <<ty.path[1]>> ELSE ty.path
\* X in add_event::<X>()
EventIn(text) == SubSeq(text, 3, Len(text) - 3)
\* The event type is written in the call and its text can be read.
Recoverable(n) ==
    /\ n.expr.method = "init_resource"
    /\ Len(n.expr.generics[1].ty.args) = 1
    /\ n.cx.has_source
Rank(applicability) ==
    CASE applicability = "MachineApplicable" -> 3
      [] applicability = "MaybeIncorrect" -> 2
      [] applicability = "HasPlaceholders" -> 1
      [] OTHER -> 0

\* C14: a suggestion of insert_event_resource is MachineApplicable only when
\* its replacement names the event type with the text the source has for
\* it; when that text cannot be recovered the replacement names T and the
\* applicability is HasPlaceholders or lower; and the two extraction helpers
\* never raise an applicability that was below MachineApplicable.
C14_MachineApplicableOnlyWhenRecovered ==
    /\ lint_pass = "check_expr" =>
          \A i \in 1..Len(diagnostics) :
             \A j \in 1..Len(diagnostics[i].suggestions) :
                LET s == diagnostics[i].suggestions[j]
                IN  /\ s.applicability = "MachineApplicable" =>
                          EventIn(s.text) = SourceName(EventTypeOf(node.expr))
                    /\ (node.expr.method = "init_resource" /\ ~Recoverable(node)) =>
                          /\ EventIn(s.text) = DEFAULT
                          /\ Rank(s.applicability) <= Rank("HasPlaceholders")
    /\ lint_pass \in {"extract_ty_event_snippet", "extract_hir_event_snippet"} =>
          (snippet.from # "MachineApplicable" =>
              Rank(snippet.to) <= Rank(snippet.from))

\* Whether check_expr is to emit for the expression.
InsertsEvents(e) ==
    /\ e.kind = "MethodCall"
    /\ peel_refs(e.receiver) = App
    /\ \/ /\ e.method = "insert_resource"
          /\ Len(e.args) = 1
          /\ IsEvents(e.args[1])
       \/ /\ e.method = "init_resource"
          /\ Len(e.generics) = 1
          /\ e.generics[1].kind = "Type"
          /\ IsEvents(e.generics[1].ty.lowered)

\* C15 as stated: check_expr emits exactly when the receiver is an App once
\* references are stripped and the call is insert_resource with one argument
\* of type Events or init_resource with one generic type argument that is
\* Events; then there is one diagnostic, at the span of the method name, with
\* a replacement add_event::<X>(); otherwise there is none.
C15_DiagnosticAtMethodName ==
    lint_pass = "check_expr" =>
        IF InsertsEvents(node.expr)
        THEN /\ Len(diagnostics) = 1
             /\ diagnostics[1].span = node.expr.ident_span
             /\ Len(diagnostics[1].suggestions) = 1
             /\ \E x \in {DEFAULT, <<"MyEvent">>, <<"E">>, <<"E/#0">>} :
                   diagnostics[1].suggestions[1].text = add_event(x)
        ELSE diagnostics = <<>>

\* C15, amended: the same, with the diagnostic and its replacement at the
\* span of the method name together with its generic arguments and its
\* argument list, the whole call but for the receiver and the dot.
C15_DiagnosticAtMethodAndArguments ==
    lint_pass = "check_expr" =>
        IF InsertsEvents(node.expr)
        THEN /\ Len(diagnostics) = 1
             /\ diagnostics[1].lint = INSERT_EVENT_RESOURCE
             /\ diagnostics[1].span = node.expr.fn_span
             /\ Len(diagnostics[1].suggestions) = 1
             /\ diagnostics[1].suggestions[1].span = node.expr.fn_span
             /\ \E x \in {DEFAULT, <<"MyEvent">>, <<"E">>, <<"E/#0">>} :
                   diagnostics[1].suggestions[1].text = add_event(x)
             /\ SubSeq(Apply(node.cx.source, diagnostics[1].suggestions[1]), 1, 3)
                   = <<"app", ".", "add_event">>
             /\ Len(Apply(node.cx.source, diagnostics[1].suggestions[1])) = 8
        ELSE diagnostics = <<>>

C15_Witness ==
    /\ lint_pass = "check_expr"
    /\ node.expr.method = "init_resource"
    /\ node.expr.receiver = Ref("mut ", App)
    /\ InsertsEvents(node.expr)
    /\ Len(diagnostics) = 1
    /\ diagnostics[1].suggestions[1].text = add_event(<<"MyEvent">>)

C15_WitnessInsert ==
    /\ lint_pass = "check_expr"
    /\ node.expr.method = "insert_resource"
    /\ node.expr.receiver = App
    /\ InsertsEvents(node.expr)
    /\ Len(diagnostics) = 1

C15_WitnessNone ==
    /\ lint_pass = "check_expr"
    /\ node.expr.method = "init_resource"
    /\ peel_refs(node.expr.receiver) = App
    /\ ~InsertsEvents(node.expr)
    /\ diagnostics = <<>>

\* The elements the data of a written query has, and whether an element is
\* of zero size once its references are stripped.
WrittenData(hir_ty) ==
    IF hir_ty.kind = "Path" /\ Len(hir_ty.args) >= 3 /\ hir_ty.args[3].kind = "Type"
    THEN IF hir_ty.args[3].ty.kind = "Tup" THEN hir_ty.args[3].ty.elems
         ELSE <<hir_ty.args[3].ty>>
    ELSE <<>>
ZeroSized(element) ==
    LET stripped == peel_refs(element.lowered)
    IN  /\ is_normalizable(stripped)
        /\ layout_of(stripped).ok
        /\ layout_of(stripped).size = 0

\* C16: for a written type that resolves to Query, check_ty takes the
\* generic argument at index 2, detuples it and emits one diagnostic, at the
\* element's span, for every element whose type without its references is
\* normalizable, has a layout and is of size zero, in order; the other
\* elements give nothing, and a type that is not Query or has no such
\* generic argument gives nothing.
C16_OneDiagnosticPerZeroSizedElement ==
    lint_pass = "check_ty" =>
        LET expected ==
                IF node.hir_ty.lowered.kind = "Adt"
                   /\ node.hir_ty.lowered.path = QUERY
                THEN SelectSeq(WrittenData(node.hir_ty), ZeroSized)
                ELSE <<>>
        IN  /\ Len(diagnostics) = Len(expected)
            /\ \A i \in 1..Len(expected) :
                  /\ diagnostics[i].lint = ZST_QUERY
                  /\ diagnostics[i].span = expected[i].span

C16_Witness ==
    /\ lint_pass = "check_ty"
    /\ node.hir_ty.lowered.path = QUERY
    /\ Len(WrittenData(node.hir_ty)) = 2
    /\ WrittenData(node.hir_ty)[1].lowered = Ref("mut ", Position)
    /\ WrittenData(node.hir_ty)[2].lowered = Ref("", Marker)
    /\ Len(diagnostics) = 1
    /\ diagnostics[1].span = Span(7, 9)

C16_WitnessNoLayout ==
    /\ lint_pass = "check_ty"
    /\ node.hir_ty.lowered.path = QUERY
    /\ Len(WrittenData(node.hir_ty)) = 2
    /\ WrittenData(node.hir_ty)[1].lowered = Ref("", Alias("Assoc"))
    /\ WrittenData(node.hir_ty)[2].lowered = Ref("", Huge)
    /\ diagnostics = <<>>

C16_WitnessAlias ==
    /\ lint_pass = "check_ty"
    /\ node.hir_ty.lowered.kind = "Adt"
    /\ node.hir_ty.lowered.path = QUERY
    /\ node.hir_ty.args = <<>>
    /\ diagnostics = <<>>

====
